---- MODULE Spec2Model ----
(***************************************************************************)
(* Model of the JobFinder authentication backend (src/index.js): the       *)
(* POST /signup and POST /login handlers, run concurrently by the Node     *)
(* event loop against one PostgreSQL "users" table and the bcrypt          *)
(* primitive.  A handler runs synchronously up to each await; each await   *)
(* (a store query, a bcrypt call) is one atomic step of the store or of    *)
(* the hashing primitive, followed by the handler's synchronous            *)
(* continuation.  Strings are sequences of one-character strings.          *)
(***************************************************************************)
EXTENDS Integers, Sequences, FiniteSets, TLC

VARIABLES
    users,      \* rows of the users table
    nextId,     \* next value of the id sequence of the users table
    now,        \* store clock (NOW()); ticks at every request arrival
    nodeEnv,    \* process.env.NODE_ENV
    reqs        \* one record per request: handler position, locals, response

vars == <<users, nextId, now, nodeEnv, reqs>>

\* Number of requests the server receives in a run.
NumReqs == 2

Reqs == 1..NumReqs

\* ---------------------------------------------------------------- strings

Whitespace == {" "}

RECURSIVE TrimStart(_)
TrimStart(s) ==
    IF s # <<>> /\ Head(s) \in Whitespace THEN TrimStart(Tail(s)) ELSE s

RECURSIVE TrimEnd(_)
TrimEnd(s) ==
    IF s # <<>> /\ s[Len(s)] \in Whitespace
    THEN TrimEnd(SubSeq(s, 1, Len(s) - 1))
    ELSE s

\* String.prototype.trim
Trim(s) == TrimEnd(TrimStart(s))

LowerChar(c) ==
    CASE c = "A" -> "a"
      [] c = "B" -> "b"
      [] c = "N" -> "n"
      [] OTHER -> c

\* String.prototype.toLowerCase
ToLowerCase(s) == [k \in 1..Len(s) |-> LowerChar(s[k])]

\* Mutant of CleanEmailOf: trims but does not lower-case.
CleanEmailOfTrimOnly(email) == Trim(email)

\* email.trim().toLowerCase()
CleanEmailOf(email) == ToLowerCase(Trim(email))

\* ---------------------------------------------------------- request bodies

EmptyBody == [f \in {} |-> <<>>]

Names == {<<"n">>, <<"N">>}
Emails == {<<"A">>, <<" ", "a">>, <<"b">>}
Passwords == {<<"p">>, <<"q">>}

\* Values of a field that fail validation: an empty string, only whitespace.
Blanks == {<<>>, <<" ">>}

ValidSignupBodies ==
    {[name |-> n, email |-> e, password |-> p] :
        n \in Names, e \in Emails, p \in Passwords}

ValidLoginBodies ==
    {[email |-> e, password |-> p] : e \in Emails, p \in Passwords}

\* The body with field f left out.
Without(body, f) == [g \in DOMAIN body \ {f} |-> body[g]]

\* A body with one field left out or blank, or no field at all.  A password
\* of only whitespace is a non-empty string and is accepted.
Spoiled(body) ==
    {EmptyBody}
        \cup {Without(body, f) : f \in DOMAIN body}
        \cup {[body EXCEPT ![f] = b] : f \in DOMAIN body \ {"password"}, b \in Blanks}
        \cup {[body EXCEPT !["password"] = <<>>]}

SignupBodies ==
    ValidSignupBodies
        \cup Spoiled([name |-> <<"n">>, email |-> <<"A">>, password |-> <<"p">>])

LoginBodies ==
    ValidLoginBodies \cup Spoiled([email |-> <<"A">>, password |-> <<"p">>])

Has(body, f) == f \in DOMAIN body

\* !!v for a field that is a string or undefined
Truthy(body, f) == Has(body, f) /\ body[f] # <<>>

\* !v?.trim()
BlankField(body, f) == ~Has(body, f) \/ Trim(body[f]) = <<>>

\* ------------------------------------------------------------------ bcrypt

saltRounds == 12

Salts == {"s1", "s2"}

\* The cost field of a hash string, two decimal digits.
CostString(rounds) ==
    CASE rounds = 10 -> "10"
      [] rounds = 11 -> "11"
      [] rounds = 12 -> "12"
      [] OTHER -> "??"

NoHash == <<>>

\* bcrypt.hash(password, saltRounds) with the salt the library drew: the
\* hash string is version, cost, salt, then the digest of the password
\* under that salt and cost (kept symbolic: the password itself).
BcryptHash(password, rounds, salt) ==
    <<"$2b$", CostString(rounds), salt>> \o password

\* bcrypt.compare(password, hash): rehash the password with the version,
\* cost and salt read from the hash and compare; false for a malformed hash.
BcryptCompare(password, hash) ==
    /\ Len(hash) >= 3
    /\ hash[1] = "$2b$"
    /\ <<hash[1], hash[2], hash[3]>> \o password = hash

\* ------------------------------------------------------------ users table

NoRow == [id |-> 0, username |-> <<>>, email |-> <<>>, password |-> NoHash,
          created_at |-> 0]

\* Mutant of SelectByEmailOrUsername: the existence check looks at the
\* username only.
SelectByUsernameOnly(email, username) ==
    {u \in users : u.username = username}

\* SELECT id FROM users WHERE email = $1 OR username = $2
SelectByEmailOrUsername(email, username) ==
    {u \in users : u.email = email \/ u.username = username}

\* Mutant of SelectByEmail: the lookup matches the username column.
SelectByEmailAsUsername(email) == {u \in users : u.username = email}

\* SELECT id, username, email, password, created_at FROM users WHERE email = $1
SelectByEmail(email) == {u \in users : u.email = email}

\* Mutant of UniqueViolation: only the email column is UNIQUE.
UniqueViolationEmailOnly(row) ==
    \E u \in users : u.email = row.email

\* The UNIQUE constraints of the users table on username and on email.
UniqueViolation(row) ==
    \E u \in users : u.email = row.email \/ u.username = row.username

\* INSERT INTO users (username, email, password, created_at)
\*   VALUES ($1, $2, $3, NOW()) RETURNING id, username, email, created_at
InsertedRow(username, email, password) ==
    [id |-> nextId, username |-> username, email |-> email,
     password |-> password, created_at |-> now]

\* error.message of the errors the awaited calls reject with
StoreErrorMessage == "connection terminated unexpectedly"
UniqueErrorMessage == "duplicate key value violates unique constraint"
HashErrorMessage == "bcrypt failure"

\* ---------------------------------------------------------------- requests

NoRes == [status |-> 0, body |-> EmptyBody]

IdleReq ==
    [pc |-> "idle", route |-> "none", body |-> EmptyBody, cleanEmail |-> <<>>,
     hashedPassword |-> NoHash, user |-> NoRow, error |-> "", res |-> NoRes,
     awaited |-> 0, sent |-> 0, doneAt |-> 0]

\* res.status(status).json(body), after which the handler returns; the
\* time is the store clock at which the response leaves.
Respond(r, status, body, time) ==
    [r EXCEPT !.pc = "done", !.res = [status |-> status, body |-> body],
              !.sent = @ + 1, !.doneAt = time]

\* { message, error: NODE_ENV === 'development' ? error.message : undefined }
FailureBody(message, error) ==
    IF nodeEnv = "development"
    THEN [message |-> message, error |-> error]
    ELSE [message |-> message]

\* Mutant of SignupCatch: the catch block answers 400.
SignupCatchBadRequest(r, error) ==
    Respond([r EXCEPT !.error = error], 400,
            FailureBody("Registration failed", error), now)

\* Mutant of SignupCatch: the catch block starts the handler's queries over
\* instead of answering.
SignupCatchRetry(r, error) ==
    [r EXCEPT !.error = error, !.pc = "select"]

\* catch (error) of the signup handler
SignupCatch(r, error) ==
    Respond([r EXCEPT !.error = error], 500,
            FailureBody("Registration failed", error), now)

\* catch (error) of the login handler
LoginCatch(r, error) ==
    Respond([r EXCEPT !.error = error], 500,
            FailureBody("Login failed", error), now)

\* Mutant of SignupInvalid: the name is tested without trimming.
SignupInvalidUntrimmedName(body) ==
    ~Truthy(body, "name") \/ BlankField(body, "email") \/ ~Truthy(body, "password")

\* if (!name?.trim() || !email?.trim() || !password)
SignupInvalid(body) ==
    BlankField(body, "name") \/ BlankField(body, "email") \/ ~Truthy(body, "password")

SignupInvalidBody(body) ==
    [message |-> "All fields are required",
     received |-> [name |-> Truthy(body, "name"), email |-> Truthy(body, "email"),
                   password |-> Truthy(body, "password")]]

SignupConflictBody == [message |-> "Email or username already exists"]

SignupCreatedBody(newUser) ==
    [message |-> "User registered successfully", userId |-> newUser.id]

LoginInvalid(body) == BlankField(body, "email") \/ ~Truthy(body, "password")

LoginInvalidBody == [message |-> "Email and password are required"]

LoginNotFoundBody == [message |-> "Invalid email or password"]

\* Mutant of LoginBadPasswordBody: a message of its own.
LoginBadPasswordBodyDistinct == [message |-> "Invalid password"]

LoginBadPasswordBody == [message |-> "Invalid email or password"]

\* Mutant of LoginOkBody: the whole row is returned.
LoginOkBodyWholeRow(user) ==
    [message |-> "Login successful", user |-> user]

LoginOkBody(user) ==
    [message |-> "Login successful",
     user |-> [id |-> user.id, username |-> user.username, email |-> user.email,
               created_at |-> user.created_at]]

\* Requests arrive in index order (requests are interchangeable).
Arrives(i) ==
    /\ reqs[i].pc = "idle"
    /\ \A j \in Reqs : j < i => reqs[j].pc # "idle"

\* ------------------------------------------------------------ POST /signup

\* Handler entry up to the first await: destructure, validate, normalize.
SignupBegin(i) ==
    /\ Arrives(i)
    /\ \E body \in SignupBodies :
        LET r == [reqs[i] EXCEPT !.route = "signup", !.body = body] IN
        IF SignupInvalid(body)
        THEN reqs' = [reqs EXCEPT ![i] =
                        Respond(r, 400, SignupInvalidBody(body), now + 1)]
        ELSE reqs' = [reqs EXCEPT ![i] =
                        [r EXCEPT !.pc = "select", !.awaited = @ + 1,
                                  !.cleanEmail = CleanEmailOf(body.email)]]
    /\ now' = now + 1
    /\ UNCHANGED <<users, nextId, nodeEnv>>

\* The existence query resolves and the handler tests existingUser.rows.
SignupSelect(i) ==
    /\ reqs[i].pc = "select" /\ reqs[i].route = "signup"
    /\ LET r == reqs[i]
           rows == SelectByEmailOrUsername(r.cleanEmail, r.body.name) IN
       \/ reqs' = [reqs EXCEPT ![i] = SignupCatch(r, StoreErrorMessage)]
       \/ /\ rows # {}
          /\ reqs' = [reqs EXCEPT ![i] = Respond(r, 409, SignupConflictBody, now)]
       \/ /\ rows = {}
          /\ reqs' = [reqs EXCEPT ![i] = [r EXCEPT !.pc = "hash", !.awaited = @ + 1]]
    /\ UNCHANGED <<users, nextId, now, nodeEnv>>

\* bcrypt.hash resolves or rejects.
SignupHash(i) ==
    /\ reqs[i].pc = "hash" /\ reqs[i].route = "signup"
    /\ LET r == reqs[i] IN
       \/ reqs' = [reqs EXCEPT ![i] = SignupCatch(r, HashErrorMessage)]
       \/ \E salt \in Salts :
            reqs' = [reqs EXCEPT ![i] =
                [r EXCEPT !.pc = "insert", !.awaited = @ + 1,
                          !.hashedPassword =
                              BcryptHash(r.body.password, saltRounds, salt)]]
    /\ UNCHANGED <<users, nextId, now, nodeEnv>>

\* The INSERT resolves with the new row or rejects.
SignupInsert(i) ==
    /\ reqs[i].pc = "insert" /\ reqs[i].route = "signup"
    /\ LET r == reqs[i]
           newUser == InsertedRow(r.body.name, r.cleanEmail, r.hashedPassword) IN
       \/ /\ reqs' = [reqs EXCEPT ![i] = SignupCatch(r, StoreErrorMessage)]
          /\ UNCHANGED <<users, nextId>>
       \/ /\ UniqueViolation(newUser)
          /\ reqs' = [reqs EXCEPT ![i] = SignupCatch(r, UniqueErrorMessage)]
          /\ UNCHANGED <<users, nextId>>
       \/ /\ ~UniqueViolation(newUser)
          /\ users' = users \cup {newUser}
          /\ nextId' = nextId + 1
          /\ reqs' = [reqs EXCEPT ![i] =
                [Respond(r, 201, SignupCreatedBody(newUser), now)
                    EXCEPT !.user = newUser]]
    /\ UNCHANGED <<now, nodeEnv>>

\* ------------------------------------------------------------- POST /login

LoginBegin(i) ==
    /\ Arrives(i)
    /\ \E body \in LoginBodies :
        LET r == [reqs[i] EXCEPT !.route = "login", !.body = body] IN
        IF LoginInvalid(body)
        THEN reqs' = [reqs EXCEPT ![i] = Respond(r, 400, LoginInvalidBody, now + 1)]
        ELSE reqs' = [reqs EXCEPT ![i] =
                        [r EXCEPT !.pc = "find", !.awaited = @ + 1,
                                  !.cleanEmail = CleanEmailOf(body.email)]]
    /\ now' = now + 1
    /\ UNCHANGED <<users, nextId, nodeEnv>>

\* The lookup query resolves and the handler tests result.rows.
LoginFind(i) ==
    /\ reqs[i].pc = "find" /\ reqs[i].route = "login"
    /\ LET r == reqs[i]
           rows == SelectByEmail(r.cleanEmail) IN
       \/ reqs' = [reqs EXCEPT ![i] = LoginCatch(r, StoreErrorMessage)]
       \/ /\ rows = {}
          /\ reqs' = [reqs EXCEPT ![i] = Respond(r, 401, LoginNotFoundBody, now)]
       \/ \E user \in rows :
            reqs' = [reqs EXCEPT ![i] = [r EXCEPT !.pc = "compare", !.awaited = @ + 1,
                                          !.user = user]]
    /\ UNCHANGED <<users, nextId, now, nodeEnv>>

\* bcrypt.compare resolves or rejects.
LoginCompare(i) ==
    /\ reqs[i].pc = "compare" /\ reqs[i].route = "login"
    /\ LET r == reqs[i] IN
       \/ reqs' = [reqs EXCEPT ![i] = LoginCatch(r, HashErrorMessage)]
       \/ /\ ~BcryptCompare(r.body.password, r.user.password)
          /\ reqs' = [reqs EXCEPT ![i] = Respond(r, 401, LoginBadPasswordBody, now)]
       \/ /\ BcryptCompare(r.body.password, r.user.password)
          /\ reqs' = [reqs EXCEPT ![i] = Respond(r, 200, LoginOkBody(r.user), now)]
    /\ UNCHANGED <<users, nextId, now, nodeEnv>>

\* --------------------------------------------------------------- behaviour

\* A user registered before the server started: the row that the signup
\* {name: "N", email: "b", password: "q"} leaves behind.
EarlierUser ==
    [id |-> 1, username |-> <<"N">>, email |-> <<"b">>,
     password |-> BcryptHash(<<"q">>, saltRounds, "s1"), created_at |-> 0]

Init ==
    /\ users \in {{}, {EarlierUser}}
    /\ nextId = Cardinality(users) + 1
    /\ now = 0
    /\ nodeEnv \in {"development", "production"}
    /\ reqs = [i \in Reqs |-> IdleReq]

Step(i) ==
    \/ SignupBegin(i)
    \/ SignupSelect(i)
    \/ SignupHash(i)
    \/ SignupInsert(i)
    \/ LoginBegin(i)
    \/ LoginFind(i)
    \/ LoginCompare(i)

Next == \E i \in Reqs : Step(i)

Spec == Init /\ [][Next]_vars

\* ------------------------------------------------------------ vocabulary

IsSignup(i) == reqs[i].route = "signup"
IsLogin(i) == reqs[i].route = "login"
IsDone(i) == reqs[i].pc = "done"
StatusOf(i) == reqs[i].res.status

\* The request passed validation: all required fields present and non-blank.
WellFormed(i) ==
    /\ ~BlankField(reqs[i].body, "email")
    /\ Truthy(reqs[i].body, "password")
    /\ IsSignup(i) => ~BlankField(reqs[i].body, "name")

\* No awaited call of the request was rejected.
NothingThrew(i) == reqs[i].error = ""

\* No awaited call of the request was rejected for a reason other than the
\* uniqueness constraint.
NoOutage(i) == reqs[i].error \in {"", UniqueErrorMessage}

\* Request l arrived after request i had answered (l is the l-th arrival;
\* doneAt is the number of arrivals when i answered).
ArrivedAfter(l, i) == IsDone(i) /\ reqs[l].pc # "idle" /\ l > reqs[i].doneAt

\* Row u was in the table before request i arrived.
StoredBefore(u, i) == u \in users /\ u.created_at < i

\* The row a signup request created, if any.
CreatedBy(i) == IF IsSignup(i) /\ StatusOf(i) = 201 THEN {reqs[i].user} ELSE {}

\* -------------------------------------------------------------------- C1

\* C1 as stated: of two answered signups with the same normalized email,
\* exactly one answers 201 and the other answers 409 or 500 (here even
\* restricted to well-formed requests whose store and bcrypt calls fail only
\* by the uniqueness constraint).
C1_ExactlyOneCreated ==
    \A i, j \in Reqs :
        (/\ i # j /\ IsSignup(i) /\ IsSignup(j) /\ IsDone(i) /\ IsDone(j)
         /\ WellFormed(i) /\ WellFormed(j) /\ NoOutage(i) /\ NoOutage(j)
         /\ reqs[i].cleanEmail = reqs[j].cleanEmail)
        => \/ StatusOf(i) = 201 /\ StatusOf(j) \in {409, 500}
           \/ StatusOf(j) = 201 /\ StatusOf(i) \in {409, 500}

\* C1 (amended): two signups with the same normalized email never both answer
\* 201; and when both are well-formed, none of their calls fails for a reason
\* other than the uniqueness constraint, and no other row holds that email or
\* either username, exactly one answers 201 and the other answers 409 or 500.
C1_NeverTwoCreated ==
    \A i, j \in Reqs :
        (/\ i # j /\ IsSignup(i) /\ IsSignup(j) /\ IsDone(i) /\ IsDone(j)
         /\ Has(reqs[i].body, "email") /\ Has(reqs[j].body, "email")
         /\ CleanEmailOf(reqs[i].body.email) = CleanEmailOf(reqs[j].body.email))
        => /\ ~(StatusOf(i) = 201 /\ StatusOf(j) = 201)
           /\ (/\ WellFormed(i) /\ WellFormed(j) /\ NoOutage(i) /\ NoOutage(j)
               /\ \A u \in users \ (CreatedBy(i) \cup CreatedBy(j)) :
                    /\ u.email # reqs[i].cleanEmail
                    /\ u.username \notin {reqs[i].body.name, reqs[j].body.name})
              => \/ StatusOf(i) = 201 /\ StatusOf(j) \in {409, 500}
                 \/ StatusOf(j) = 201 /\ StatusOf(i) \in {409, 500}

\* Two signups with the same normalized email raced: both passed the
\* existence check, one inserted, the other's insert was rejected.
C1_Witness ==
    \E i, j \in Reqs :
        /\ i # j /\ IsSignup(i) /\ IsSignup(j) /\ IsDone(i) /\ IsDone(j)
        /\ WellFormed(i) /\ WellFormed(j)
        /\ reqs[i].cleanEmail = reqs[j].cleanEmail
        /\ reqs[i].body.email # reqs[j].body.email
        /\ StatusOf(i) = 201
        /\ reqs[j].error = UniqueErrorMessage

\* -------------------------------------------------------------------- C2

\* C2 as stated: a signup whose insert the store rejects for a uniqueness
\* violation answers 409 with the body of the duplicate found by the pre-check.
C2_ViolationAnswers409 ==
    \A i \in Reqs :
        (IsSignup(i) /\ IsDone(i) /\ reqs[i].error = UniqueErrorMessage)
        => reqs[i].res = [status |-> 409, body |-> SignupConflictBody]

\* -------------------------------------------------------------------- C3

\* C3: no two rows of the users table share an email or share a username.
C3_UsersUnique ==
    \A u, v \in users :
        u # v => u.email # v.email /\ u.username # v.username

\* The table holds two rows and the store has rejected a third insert.
C3_Witness ==
    /\ Cardinality(users) >= 2
    /\ \E i \in Reqs : reqs[i].error = UniqueErrorMessage

\* -------------------------------------------------------------------- C4

\* The existence check of signup i returned no row (the handler went on to
\* hash the password).
PassedCheck(i) == IsSignup(i) /\ reqs[i].awaited >= 2

\* A login that arrived after signup i answered 201, with the same email and
\* password, and whose calls did not throw, answers 200.
LaterLoginSucceeds ==
    \A i, l \in Reqs :
        (/\ IsSignup(i) /\ StatusOf(i) = 201
         /\ IsLogin(l) /\ IsDone(l) /\ ArrivedAfter(l, i) /\ NothingThrew(l)
         /\ WellFormed(l)
         /\ reqs[l].body.email = reqs[i].body.email
         /\ reqs[l].body.password = reqs[i].body.password)
        => StatusOf(l) = 200

\* C4 as stated: a well-formed signup whose email and username were not in the
\* table when it checked answers 201 (here even restricted to requests none
\* of whose calls fails for a reason other than the uniqueness constraint),
\* and a later login with the same email and password answers 200.
C4_FreshSignupCreated ==
    /\ \A i \in Reqs :
        (IsSignup(i) /\ IsDone(i) /\ WellFormed(i) /\ PassedCheck(i) /\ NoOutage(i))
        => StatusOf(i) = 201
    /\ LaterLoginSucceeds

\* C4 (amended): a well-formed signup whose email and username were not in
\* the table when it checked, and none of whose calls is rejected (the insert
\* included: no concurrent signup took the email or username in between),
\* answers 201 with the id of its row; a later login with the same email and
\* password, whose calls do not throw, answers 200.
C4_UncontendedSignupCreated ==
    /\ \A i \in Reqs :
        (IsSignup(i) /\ IsDone(i) /\ WellFormed(i) /\ PassedCheck(i)
            /\ NothingThrew(i))
        => /\ StatusOf(i) = 201
           /\ reqs[i].user \in users
           /\ reqs[i].res.body.userId = reqs[i].user.id
    /\ LaterLoginSucceeds

\* A signup answered 201 and a login that arrived afterwards with the same
\* email and password answered 200.
C4_Witness ==
    \E i, l \in Reqs :
        /\ IsSignup(i) /\ StatusOf(i) = 201
        /\ IsLogin(l) /\ ArrivedAfter(l, i) /\ StatusOf(l) = 200
        /\ reqs[l].body.email = reqs[i].body.email
        /\ reqs[l].body.password = reqs[i].body.password

\* -------------------------------------------------------------------- C5

\* Signup i is well-formed and its normalized email was stored before it
\* arrived.
EmailTakenBefore(i) ==
    /\ IsSignup(i) /\ WellFormed(i)
    /\ \E u \in users : StoredBefore(u, i) /\ u.email = CleanEmailOf(reqs[i].body.email)

C5_Answers409 ==
    \A i \in Reqs :
        (IsDone(i) /\ EmailTakenBefore(i) /\ NoOutage(i))
        => reqs[i].res = [status |-> 409, body |-> SignupConflictBody]

C5_TableUntouched ==
    \A i \in Reqs :
        (reqs'[i] # reqs[i] /\ EmailTakenBefore(i)') => users' = users

\* C5: a well-formed signup whose normalized email was already stored when it
\* arrived answers 409 (unless the store is out of service), and no step of
\* the request changes the users table.
C5_DuplicateEmailRejected == []C5_Answers409 /\ [][C5_TableUntouched]_vars

\* A signup with a stored email and a fresh username answered 409.
C5_Witness ==
    \E i \in Reqs :
        /\ IsDone(i) /\ EmailTakenBefore(i) /\ StatusOf(i) = 409
        /\ \A u \in users : u.username # reqs[i].body.name

\* -------------------------------------------------------------------- C6

\* C6: a login (well-formed, its calls returning) whose email is not
\* registered, and one whose email was registered before it arrived but whose
\* password does not verify against the stored hash, both answer 401; all
\* 401 login responses are the same in status and body.
C6_InvalidCredentialUniform ==
    /\ \A l \in Reqs :
        (IsLogin(l) /\ IsDone(l) /\ WellFormed(l) /\ NothingThrew(l))
        => /\ (\A u \in users : u.email # CleanEmailOf(reqs[l].body.email))
                => StatusOf(l) = 401
           /\ (\E u \in users :
                    /\ StoredBefore(u, l)
                    /\ u.email = CleanEmailOf(reqs[l].body.email)
                    /\ ~BcryptCompare(reqs[l].body.password, u.password))
                => StatusOf(l) = 401
    /\ \A l, m \in Reqs :
        (IsLogin(l) /\ IsLogin(m) /\ StatusOf(l) = 401 /\ StatusOf(m) = 401)
        => reqs[l].res = reqs[m].res

\* One login was refused for an unregistered email and another for a wrong
\* password.
C6_Witness ==
    \E l, m \in Reqs :
        /\ IsLogin(l) /\ IsLogin(m) /\ StatusOf(l) = 401 /\ StatusOf(m) = 401
        /\ reqs[l].user = NoRow
        /\ reqs[m].user # NoRow

\* -------------------------------------------------------------------- C7

\* The string-valued credential fields of a JSON object.
CredentialFields == {"name", "username", "email", "password", "hash"}

StringsOf(obj) == {obj[f] : f \in DOMAIN obj \cap CredentialFields}

\* The strings a response body carries, at top level and in its user object.
StringsIn(body) ==
    StringsOf(body) \cup (IF "user" \in DOMAIN body THEN StringsOf(body.user) ELSE {})

\* Every plaintext password submitted so far.
SubmittedPasswords ==
    {reqs[i].body.password : i \in {j \in Reqs : Truthy(reqs[j].body, "password")}}

\* Every hash stored in the table or computed by a handler so far.
KnownHashes ==
    {u.password : u \in users}
        \cup {reqs[i].hashedPassword : i \in {j \in Reqs : reqs[j].hashedPassword # NoHash}}

\* C7: the password column of every row a signup created holds a bcrypt hash
\* of the password that signup submitted, no row's password column holds a
\* submitted plaintext, and no response body of any status carries a stored
\* or computed hash or a submitted plaintext password.
C7_PasswordNeverExposed ==
    /\ \A i \in Reqs :
        (IsSignup(i) /\ StatusOf(i) = 201)
        => /\ reqs[i].user \in users
           /\ reqs[i].user.password # reqs[i].body.password
           /\ \E salt \in Salts :
                reqs[i].user.password = BcryptHash(reqs[i].body.password, saltRounds, salt)
           /\ BcryptCompare(reqs[i].body.password, reqs[i].user.password)
    /\ \A u \in users :
        /\ u.password \notin SubmittedPasswords
        /\ u = EarlierUser \/ \E i \in Reqs : u \in CreatedBy(i)
    /\ \A i \in Reqs :
        IsDone(i) =>
            StringsIn(reqs[i].res.body) \cap (SubmittedPasswords \cup KnownHashes) = {}

\* A signup stored a row and a login answered 200 with that row's data.
C7_Witness ==
    \E i, l \in Reqs :
        /\ IsSignup(i) /\ StatusOf(i) = 201
        /\ IsLogin(l) /\ StatusOf(l) = 200
        /\ reqs[l].user = reqs[i].user

\* -------------------------------------------------------------------- C8

C8_Answers400 ==
    \A i \in Reqs :
        (IsDone(i) /\ ~WellFormed(i))
        => /\ StatusOf(i) = 400
           /\ reqs[i].awaited = 0
           /\ reqs[i].error = ""

C8_TableUntouched ==
    \A i \in Reqs :
        (reqs'[i] # reqs[i] /\ ~WellFormed(i)')
        => users' = users /\ nextId' = nextId

\* C8: a signup with name, email or password missing or empty (name or email
\* blank after trimming), and a login with email or password missing or
\* empty, answers 400 without having issued any store or bcrypt call, and
\* the users table is unchanged.
C8_MissingFieldRejected == []C8_Answers400 /\ [][C8_TableUntouched]_vars

\* A signup with a whitespace-only name and a login without a password both
\* answered 400.
C8_Witness ==
    \E i, l \in Reqs :
        /\ IsSignup(i) /\ StatusOf(i) = 400
        /\ Has(reqs[i].body, "name") /\ reqs[i].body.name = <<" ">>
        /\ IsLogin(l) /\ StatusOf(l) = 400
        /\ ~Has(reqs[l].body, "password")

\* -------------------------------------------------------------------- C9

UpperCase == {"A", "B", "N"}

\* No surrounding whitespace and no upper-case letter.
IsNormalized(e) ==
    /\ e # <<>> => Head(e) \notin Whitespace /\ e[Len(e)] \notin Whitespace
    /\ \A k \in 1..Len(e) : e[k] \notin UpperCase

\* C9: every stored email is trimmed and lower-case; and a login that arrives
\* after a signup answered 201, with the same password and an email equal to
\* the signup's up to letter case and surrounding whitespace, answers 200
\* (its calls returning) with user.username the name given at signup.
C9_EmailNormalized ==
    /\ \A u \in users : IsNormalized(u.email)
    /\ \A i \in Reqs : IsDone(i) /\ WellFormed(i) => IsNormalized(reqs[i].cleanEmail)
    /\ \A i, l \in Reqs :
        (/\ IsSignup(i) /\ StatusOf(i) = 201
         /\ IsLogin(l) /\ IsDone(l) /\ ArrivedAfter(l, i) /\ NothingThrew(l)
         /\ WellFormed(l)
         /\ ToLowerCase(Trim(reqs[l].body.email)) = ToLowerCase(Trim(reqs[i].body.email))
         /\ reqs[l].body.password = reqs[i].body.password)
        => /\ StatusOf(l) = 200
           /\ reqs[l].res.body.user.username = reqs[i].body.name
           /\ reqs[l].res.body.user.email = reqs[i].user.email

\* Signup with email "A" answered 201 and a later login with email " a"
\* answered 200.
C9_Witness ==
    \E i, l \in Reqs :
        /\ IsSignup(i) /\ StatusOf(i) = 201 /\ reqs[i].body.email = <<"A">>
        /\ IsLogin(l) /\ ArrivedAfter(l, i) /\ StatusOf(l) = 200
        /\ reqs[l].body.email = <<" ", "a">>
        /\ reqs[l].res.body.user.username = reqs[i].body.name

\* ------------------------------------------------------------------- C10

\* An awaited store query or bcrypt call of request i resolves or rejects.
Resolve(i) ==
    \/ SignupSelect(i)
    \/ SignupHash(i)
    \/ SignupInsert(i)
    \/ LoginFind(i)
    \/ LoginCompare(i)

\* Every awaited call eventually resolves or rejects.
FairSpec == Spec /\ \A i \in Reqs : WF_vars(Resolve(i))

C10_OneResponse ==
    \A i \in Reqs :
        /\ reqs[i].sent = (IF IsDone(i) THEN 1 ELSE 0)
        /\ (IsDone(i) /\ IsSignup(i)) => StatusOf(i) \in {400, 409, 201, 500}
        /\ (IsDone(i) /\ IsLogin(i)) => StatusOf(i) \in {400, 401, 200, 500}
        /\ reqs[i].error # "" => IsDone(i) /\ StatusOf(i) = 500
        /\ reqs[i].awaited <= (IF IsSignup(i) THEN 3 ELSE 2)

C10_Terminal ==
    \A i \in Reqs : IsDone(i) => reqs'[i] = reqs[i]

C10_Answers ==
    \A i \in Reqs : (reqs[i].pc \notin {"idle", "done"}) ~> IsDone(i)

\* C10: every request that enters its handler eventually emits exactly one
\* response, with a status of its route's set, and then takes no further
\* step; a rejected call ends the request with 500 and is not retried.
C10_RequestTerminates ==
    /\ []C10_OneResponse
    /\ [][C10_Terminal]_vars
    /\ C10_Answers

\* A signup answered after its insert was rejected and a login answered 200.
C10_Witness ==
    \E i, l \in Reqs :
        /\ IsSignup(i) /\ IsDone(i) /\ reqs[i].awaited = 3 /\ reqs[i].error # ""
        /\ IsLogin(l) /\ StatusOf(l) = 200

====
